---- MODULE Spec2Model ----
(***************************************************************************)
(* slice-pool: the chunk chain of src/sync/mod.rs (best-fit allocation and *)
(* coalescing release over one Vec<Chunk>) and the owned pool of           *)
(* src/sync/owned.rs (SlicePool::alloc, SliceBox::drop) that hands out and *)
(* takes back ranges of one backing slice.                                 *)
(***************************************************************************)
EXTENDS Bags, FiniteSets, Integers, Sequences, TLC

\* Largest length of the backing slice handed to SlicePool::new.
MaxTotal == 4

\* Largest number of SliceBox values alive at the same time.
MaxHandles == 3

\* mem::size_of::<T>() of the element type of the tests' vec![10, 20, ...].
ElemSize == 4

VARIABLES
  total,     \* slice.as_ref().len() of the slice owned by the pool
  chunks,    \* the Vec<Chunk> behind ChunkChain's mutex
  handles,   \* the live SliceBox values: a bag of [ptr, len]
  poisoned,  \* the mutex of the chain is poisoned
  last,      \* the last call: what it was given, what it saw, what it returned
  repaired,  \* the chunk the latest release freed in place, for as long as
             \* the table holds it as it was freed (Option<Chunk>)
  poolAlive, \* the SlicePool value has not been dropped
  sliceRefs, \* strong count of the Arc<Sliceable<T>> (pool.slice, box.slice)
  chainRefs, \* strong count of the Arc<ChunkChain> (pool.chain, box.chain)
  pc,        \* per thread: where it stands in alloc or in a box's drop
  lock,      \* the thread holding the MutexGuard of the chain, or NoThread
  local      \* per thread: the locals of the call it is in

\* The table, the boxes and the mutex's poison flag.
poolvars == <<total, chunks, handles, poisoned>>

\* The pool value and the two reference counts.
lifevars == <<poolAlive, sliceRefs, chainRefs>>

\* The threads sharing the pool, the mutex and each thread's frame.
mtvars == <<pc, lock, local>>

vars == <<total, chunks, handles, poisoned, last, repaired,
          poolAlive, sliceRefs, chainRefs, pc, lock, local>>

----------------------------------------------------------------------------
(* Chunk *)

\* Chunk::new(size): one free chunk at offset 0.
ChunkNew(size) == [offset |-> 0, size |-> size, free |-> TRUE]

\* Chunk::with_offset(size, offset): one free chunk at the offset.
ChunkWithOffset(size, offset) == [offset |-> offset, size |-> size, free |-> TRUE]

\* Option<Chunk>: None is the empty sequence, Some(c) is <<c>>.
None == <<>>
Some(c) == <<c>>

----------------------------------------------------------------------------
(* Vec<Chunk> *)

\* Vec::insert(index, element), index counted from 1.
VecInsert(v, index, e) ==
  [i \in 1..(Len(v) + 1) |->
     IF i < index THEN v[i] ELSE IF i = index THEN e ELSE v[i - 1]]

\* Vec::remove(index), index counted from 1.
VecRemove(v, index) ==
  [i \in 1..(Len(v) - 1) |-> IF i < index THEN v[i] ELSE v[i + 1]]

----------------------------------------------------------------------------
(* ChunkChain *)

\* ChunkChain::new(size)
ChainNew(size) == <<ChunkNew(size)>>

\* ChunkChain::has_free_adjacent(chunks, index, Order::Preceding)
HasFreePreceding(chs, index) == index > 1 /\ chs[index - 1].free

\* ChunkChain::has_free_adjacent(chunks, index, Order::Following)
HasFreeFollowing(chs, index) == index + 1 <= Len(chs) /\ chs[index + 1].free

\* The filter without its size test: every free chunk is a candidate.
CandidatesAnyFree(chs, size) ==
  {i \in 1..Len(chs) : chs[i].free}

\* .filter(|(_, chunk)| chunk.free && chunk.size >= size)
Candidates(chs, size) ==
  {i \in 1..Len(chs) : chs[i].free /\ chs[i].size >= size}

\* First fit instead of best fit: the first candidate, whatever its size.
MinByKeyFirstFit(chs, cand) ==
  IF cand = {} THEN 0
  ELSE CHOOSE i \in cand : \A j \in cand : i <= j

\* .min_by_key(|(_, chunk)| chunk.size): the first of the candidates whose key
\* is the least; 0 when there is no candidate (the `?` returns None).
MinByKey(chs, cand) ==
  IF cand = {} THEN 0
  ELSE CHOOSE i \in cand :
         \A j \in cand : chs[i].size < chs[j].size
                         \/ (chs[i].size = chs[j].size /\ i <= j)

\* The index ChunkChain::allocate selects (0: none).
FindChunk(chs, size) == MinByKey(chs, Candidates(chs, size))

\* allocate that inserts the surplus chunk at index instead of index + 1.
AllocateAtInsertBefore(chs, index, size) ==
  LET delta == chs[index].size - size
      cut == [chs EXCEPT ![index].size = @ - delta]
  IN IF delta > 0
       THEN IF HasFreePreceding(cut, index)
              THEN [cut EXCEPT ![index - 1].size = @ + delta,
                               ![index].offset = @ + delta]
              ELSE IF HasFreeFollowing(cut, index)
                     THEN [cut EXCEPT ![index + 1].offset = @ - delta,
                                      ![index + 1].size = @ + delta]
                     ELSE [VecInsert(cut, index,
                                     ChunkWithOffset(delta, cut[index].offset + size))
                             EXCEPT ![index].free = FALSE]
       ELSE [chs EXCEPT ![index].free = FALSE]

\* ChunkChain::allocate past the search: the table after the call and the
\* chunk it returns, for the selected index.
AllocateAt(chs, index, size) ==
  LET delta == chs[index].size - size
      cut == [chs EXCEPT ![index].size = @ - delta]
  IN IF delta > 0
       THEN IF HasFreePreceding(cut, index)
              THEN [cut EXCEPT ![index - 1].size = @ + delta,
                               ![index].offset = @ + delta]
              ELSE IF HasFreeFollowing(cut, index)
                     THEN [cut EXCEPT ![index + 1].offset = @ - delta,
                                      ![index + 1].size = @ + delta]
                     ELSE [VecInsert(cut, index + 1,
                                     ChunkWithOffset(delta, cut[index].offset + size))
                             EXCEPT ![index].free = FALSE]
       ELSE [chs EXCEPT ![index].free = FALSE]

\* allocate that marks the first free chunk occupied before it finds out
\* that no chunk fits.
AllocateEager(chs, size) ==
  LET index == FindChunk(chs, size)
      anyFree == {i \in 1..Len(chs) : chs[i].free}
  IN IF index = 0
       THEN [chunks |-> IF anyFree = {} THEN chs
                        ELSE [chs EXCEPT ![CHOOSE i \in anyFree :
                                             \A j \in anyFree : i <= j].free = FALSE],
             ret |-> None]
       ELSE LET after == AllocateAt(chs, index, size)
            IN [chunks |-> after, ret |-> Some(after[index])]

\* ChunkChain::allocate(size): [chunks: the table after, ret: Option<Chunk>].
Allocate(chs, size) ==
  LET index == FindChunk(chs, size)
  IN IF index = 0
       THEN [chunks |-> chs, ret |-> None]
       ELSE LET after == AllocateAt(chs, index, size)
            IN [chunks |-> after, ret |-> Some(after[index])]

\* chunks.binary_search_by_key(&offset, |chunk| chunk.offset): the indices it
\* may return Ok for (any one of the matches); empty when it returns Err.
BinarySearchByOffset(chs, offset) ==
  {i \in 1..Len(chs) : chs[i].offset = offset}

\* release whose merge into the following chunk forgets to move its offset.
ReleaseAtNoShift(chs, index) ==
  LET size == chs[index].size
  IN IF HasFreePreceding(chs, index)
       THEN VecRemove([chs EXCEPT ![index - 1].size = @ + size], index)
       ELSE IF HasFreeFollowing(chs, index)
              THEN VecRemove([chs EXCEPT ![index + 1].size = @ + size], index)
              ELSE [chs EXCEPT ![index].free = TRUE]

\* release whose last branch lacks its `return` and falls through to
\* chunks.remove(index).
ReleaseAtNoReturn(chs, index) ==
  LET size == chs[index].size
  IN IF HasFreePreceding(chs, index)
       THEN VecRemove([chs EXCEPT ![index - 1].size = @ + size], index)
       ELSE IF HasFreeFollowing(chs, index)
              THEN VecRemove([chs EXCEPT ![index + 1].offset = @ - size,
                                         ![index + 1].size = @ + size], index)
              ELSE VecRemove([chs EXCEPT ![index].free = TRUE], index)

\* ChunkChain::release past the search: the table after the call, for the
\* located index.
ReleaseAt(chs, index) ==
  LET size == chs[index].size
  IN IF HasFreePreceding(chs, index)
       THEN VecRemove([chs EXCEPT ![index - 1].size = @ + size], index)
       ELSE IF HasFreeFollowing(chs, index)
              THEN VecRemove([chs EXCEPT ![index + 1].offset = @ - size,
                                         ![index + 1].size = @ + size], index)
              ELSE [chs EXCEPT ![index].free = TRUE]

\* A lock that recovers the guard of a poisoned mutex instead of panicking.
LockPanicsNever(p) == FALSE

\* self.0.lock().expect("poisoned chain"): panics when the mutex is poisoned.
LockPanics(p) == p

----------------------------------------------------------------------------
(* SlicePool, SliceBox *)

\* The pool's len() of the older pools: the number of chunks.
PoolLenChunks == Len(chunks)

\* SlicePool::len(): (*self.slice).as_ref().len()
PoolLen == total

\* The data of the SliceBox made by SlicePool::alloc: base.offset(chunk.offset)
\* as a byte distance from the base of the slice, and `size` elements.
MakeBox(chunk, size) == [ptr |-> chunk.offset * ElemSize, len |-> size]

\* The offset SliceBox::drop hands to release: diff as usize / size_of::<T>().
BoxOffset(h) == h.ptr \div ElemSize

Live == BagToSet(handles)

\* A box that keeps a plain reference instead of a counted one: the clone
\* leaves the strong count as it is.
ArcCloneNoCount(n) == n

\* Arc::clone: one more strong reference (self.chain.clone(), self.slice.clone()).
ArcClone(n) == n + 1

\* Drop of an Arc: one strong reference less.
ArcDrop(n) == n - 1

\* The value behind an Arc lives while its strong count is positive.
ArcAlive(n) == n > 0

\* The record of one call: the operation, the size asked for (alloc) or held
\* (drop), the offset released, the index selected or located (0: none), the
\* chunk returned, the table before the call, whether the call panicked,
\* whether a drop gave back the box the call right before it had allocated,
\* for such a drop the table before that allocation, whether an allocate
\* selected the chunk the latest in-place release had freed, and the boxes
\* that were live before the call.
Call(op, size, offset, index, ret, pre, panicked, undoes, pre2, took) ==
  [op |-> op, size |-> size, offset |-> offset, index |-> index, ret |-> ret,
   pre |-> pre, panicked |-> panicked, undoes |-> undoes, pre2 |-> pre2,
   took |-> took, boxes |-> handles]

\* Whether dropping h gives back the box the last call allocated.
Undoes(h) ==
  /\ last.op = "alloc"
  /\ last.ret # None
  /\ h = MakeBox(last.ret[1], last.size)

\* The table before the allocation a drop of h undoes.
Pre2(h) == IF Undoes(h) THEN last.pre ELSE <<>>

\* Whether ChunkChain::release takes its last branch (lines 78-81) at index.
InPlace(chs, index) ==
  ~HasFreePreceding(chs, index) /\ ~HasFreeFollowing(chs, index)

\* The chunk c once release has set chunks[index].free = true on it.
Freed(c) == [c EXCEPT !.free = TRUE]

\* The chunk r freed in place, while the table chs still holds it unchanged.
Keep(chs, r) ==
  IF r # None /\ (\E i \in 1..Len(chs) : chs[i] = r[1]) THEN r ELSE None

\* Whether allocate selects, at index, the chunk freed in place.
Took(chs, index) ==
  repaired # None /\ index # 0 /\ chs[index] = repaired[1]

\* The threads that share one pool: the test's main thread and the thread
\* it spawns.
Threads == {"t1", "t2"}

\* No thread holds the guard.
NoThread == "none"

\* The frame of a thread that is in no call: the size asked for, the box
\* being dropped (Option), the index found, the value allocate returns and
\* the table as it was when the thread took the lock.
IdleLocal ==
  [size |-> 0, h |-> <<>>, index |-> 0, ret |-> None, snap |-> <<>>]

\* SlicePool::new(slice) for a slice of the given length.
Init ==
  /\ total \in 0..MaxTotal
  /\ chunks = ChainNew(total)
  /\ handles = EmptyBag
  /\ poisoned = FALSE
  /\ last = Call("new", total, 0, 0, None, <<>>, FALSE, FALSE, <<>>, FALSE)
  /\ repaired = None
  /\ poolAlive = TRUE
  /\ sliceRefs = 1
  /\ chainRefs = 1
  /\ pc = [t \in Threads |-> "idle"]
  /\ lock = NoThread
  /\ local = [t \in Threads |-> IdleLocal]

\* SlicePool::alloc(size)
Alloc(size) ==
  /\ UNCHANGED mtvars
  /\ poolAlive
  /\ BagCardinality(handles) < MaxHandles
  /\ UNCHANGED poolAlive
  /\ IF LockPanics(poisoned)
       THEN \* lock().expect("poisoned chain") panics
            /\ last' = Call("alloc", size, 0, 0, None, chunks, TRUE, FALSE, <<>>,
                             FALSE)
            /\ UNCHANGED <<total, chunks, handles, poisoned, repaired,
                           sliceRefs, chainRefs>>
       ELSE LET r == Allocate(chunks, size)
            IN /\ chunks' = r.chunks
               /\ handles' = IF r.ret = None THEN handles
                             ELSE handles (+) SetToBag({MakeBox(r.ret[1], size)})
               /\ last' = Call("alloc", size, 0, FindChunk(chunks, size), r.ret,
                                chunks, FALSE, FALSE, <<>>,
                                Took(chunks, FindChunk(chunks, size)))
               /\ repaired' = Keep(r.chunks, repaired)
               /\ chainRefs' = IF r.ret = None THEN chainRefs
                               ELSE ArcClone(chainRefs)
               /\ sliceRefs' = IF r.ret = None THEN sliceRefs
                               ELSE ArcClone(sliceRefs)
               /\ UNCHANGED <<total, poisoned>>

\* SliceBox::drop of the live box h, and then the drop of its fields (also
\* when drop panics and the stack unwinds)
Drop(h) ==
  /\ UNCHANGED mtvars
  /\ h \in Live
  /\ handles' = handles (-) SetToBag({h})
  /\ sliceRefs' = ArcDrop(sliceRefs)
  /\ chainRefs' = ArcDrop(chainRefs)
  /\ UNCHANGED poolAlive
  /\ IF LockPanics(poisoned)
       THEN \* lock().expect("poisoned chain") panics
            /\ last' = Call("drop", h.len, BoxOffset(h), 0, None, chunks, TRUE,
                             Undoes(h), Pre2(h), FALSE)
            /\ UNCHANGED <<total, chunks, poisoned, repaired>>
       ELSE IF BinarySearchByOffset(chunks, BoxOffset(h)) = {}
              THEN \* .expect("releasing chunk") panics with the lock held
                   /\ poisoned' = TRUE
                   /\ last' = Call("drop", h.len, BoxOffset(h), 0, None, chunks,
                                    TRUE, Undoes(h), Pre2(h), FALSE)
                   /\ UNCHANGED <<total, chunks, repaired>>
              ELSE \E index \in BinarySearchByOffset(chunks, BoxOffset(h)) :
                     /\ chunks' = ReleaseAt(chunks, index)
                     /\ repaired' = Keep(ReleaseAt(chunks, index),
                                          IF InPlace(chunks, index)
                                            THEN Some(Freed(chunks[index]))
                                            ELSE repaired)
                     /\ last' = Call("drop", h.len, BoxOffset(h), index, None,
                                      chunks, FALSE, Undoes(h), Pre2(h), FALSE)
                     /\ UNCHANGED <<total, poisoned>>

Next ==
  \/ \E size \in 1..(total + 1) : Alloc(size)
  \/ \E h \in Live : Drop(h)

Spec == Init /\ [][Next]_vars

\* The SlicePool value goes out of scope: its two Arc fields are dropped.
DropPool ==
  /\ UNCHANGED mtvars
  /\ poolAlive
  /\ poolAlive' = FALSE
  /\ sliceRefs' = ArcDrop(sliceRefs)
  /\ chainRefs' = ArcDrop(chainRefs)
  /\ last' = Call("droppool", 0, 0, 0, None, chunks, FALSE, FALSE, <<>>, FALSE)
  /\ UNCHANGED <<total, chunks, handles, poisoned, repaired>>

NextLife ==
  \/ \E size \in 1..(total + 1) : Alloc(size)
  \/ \E h \in Live : Drop(h)
  \/ DropPool

\* The pool with the drop of the SlicePool value among its steps.
SpecLife == Init /\ [][NextLife]_vars

\* The longest table a call of alloc is made on when requests of size 0 are
\* among the calls (chunks of size 0 can pile up without end).
MaxChunks == 3

\* alloc takes any usize: a call with any size from 0, on a table of at most
\* MaxChunks chunks.
AllocAny(size) ==
  /\ Len(chunks) <= MaxChunks
  /\ Alloc(size)

NextZero ==
  \/ \E size \in 0..(total + 1) : AllocAny(size)
  \/ \E h \in Live : Drop(h)

\* The longest slice of the pools that are asked for 0 elements.
MaxTotalZero == 2

\* A pool of at most MaxTotalZero elements.
InitZero == Init /\ total <= MaxTotalZero

\* The pool with requests of size 0 among its calls.
SpecZero == InitZero /\ [][NextZero]_vars

----------------------------------------------------------------------------
(* Threads sharing one pool through Arc<SlicePool>: each call of            *)
(* ChunkChain::allocate and ChunkChain::release step by step                *)

\* A mutex that hands its guard out whether or not it is held.
LockFreeAlways(l) == TRUE

\* Mutex::lock returns once no thread holds the guard.
LockFree(l) == l = NoThread

\* A guard whose drop leaves the mutex held by thread t.
UnlockKeeps(t) == t

\* The MutexGuard `chunks` goes out of scope: the mutex is free again.
Unlock(t) == NoThread

\* The length of the storage the threads of pool_owned_thread share:
\* vec![10, 20, 30, 40].
PoolThreadLen == 4

\* The most boxes that are live or being allocated among the threads.
MaxBoxesMT == 2

\* The longest slice of the pools whose calls are followed to their end
\* under fair scheduling.
MaxTotalFair == 2

\* The calls of alloc that have not yet returned.
Allocating == {t \in Threads : pc[t] \in {"alloc_lock", "alloc_find",
                                          "alloc_split", "alloc_unlock",
                                          "alloc_ret"}}

\* The thread holds the guard: it is between lock() and the guard's drop.
InCritical(t) == pc[t] \in {"alloc_find", "alloc_split", "alloc_unlock",
                            "drop_find", "drop_merge", "drop_unlock"}

\* The thread is inside a call that has neither returned nor panicked.
InProgress(t) == pc[t] \notin {"idle", "panicked"}

\* Thread t calls pool.alloc(size).
StartAlloc(t, size) ==
  /\ pc[t] = "idle"
  /\ BagCardinality(handles) + Cardinality(Allocating) < MaxBoxesMT
  /\ pc' = [pc EXCEPT ![t] = "alloc_lock"]
  /\ local' = [local EXCEPT ![t] = [IdleLocal EXCEPT !.size = size]]
  /\ UNCHANGED <<total, chunks, handles, poisoned, last, repaired, lifevars,
                 lock>>

\* allocate: self.0.lock().expect("poisoned chain")
AllocLock(t) ==
  /\ pc[t] = "alloc_lock"
  /\ LockFree(lock)
  /\ IF LockPanics(poisoned)
       THEN /\ pc' = [pc EXCEPT ![t] = "panicked"]
            /\ local' = [local EXCEPT ![t] = IdleLocal]
            /\ UNCHANGED lock
       ELSE /\ pc' = [pc EXCEPT ![t] = "alloc_find"]
            /\ lock' = t
            /\ local' = [local EXCEPT ![t].snap = chunks]
  /\ UNCHANGED <<total, chunks, handles, poisoned, last, repaired, lifevars>>

\* allocate: the search for the smallest fitting free chunk; `?` returns
\* None, dropping the guard, when there is none.
AllocFind(t) ==
  /\ pc[t] = "alloc_find"
  /\ IF FindChunk(chunks, local[t].size) = 0
       THEN /\ pc' = [pc EXCEPT ![t] = "alloc_ret"]
            /\ lock' = Unlock(t)
            /\ local' = [local EXCEPT ![t].ret = None, ![t].snap = <<>>]
       ELSE /\ pc' = [pc EXCEPT ![t] = "alloc_split"]
            /\ local' = [local EXCEPT
                           ![t].index = FindChunk(chunks, local[t].size)]
            /\ UNCHANGED lock
  /\ UNCHANGED <<total, chunks, handles, poisoned, last, repaired, lifevars>>

\* allocate: the writes to the table, and Some(chunks[index]).
AllocSplit(t) ==
  /\ pc[t] = "alloc_split"
  /\ chunks' = AllocateAt(chunks, local[t].index, local[t].size)
  /\ local' = [local EXCEPT ![t].ret = Some(chunks'[local[t].index])]
  /\ pc' = [pc EXCEPT ![t] = "alloc_unlock"]
  /\ UNCHANGED <<total, handles, poisoned, last, repaired, lifevars, lock>>

\* allocate returns: the guard is dropped.
AllocUnlock(t) ==
  /\ pc[t] = "alloc_unlock"
  /\ lock' = Unlock(t)
  /\ local' = [local EXCEPT ![t].snap = <<>>, ![t].index = 0]
  /\ pc' = [pc EXCEPT ![t] = "alloc_ret"]
  /\ UNCHANGED <<total, chunks, handles, poisoned, last, repaired, lifevars>>

\* SlicePool::alloc after allocate: None is passed on by `?`, Some(chunk)
\* becomes a SliceBox holding clones of both Arcs.
AllocRet(t) ==
  /\ pc[t] = "alloc_ret"
  /\ IF local[t].ret = None
       THEN UNCHANGED <<handles, sliceRefs, chainRefs>>
       ELSE /\ handles' = handles
                            (+) SetToBag({MakeBox(local[t].ret[1], local[t].size)})
            /\ sliceRefs' = ArcClone(sliceRefs)
            /\ chainRefs' = ArcClone(chainRefs)
  /\ pc' = [pc EXCEPT ![t] = "idle"]
  /\ local' = [local EXCEPT ![t] = IdleLocal]
  /\ UNCHANGED <<total, chunks, poisoned, last, repaired, poolAlive, lock>>

\* Thread t drops the live box h: SliceBox::drop computes the offset and
\* calls release.
StartDrop(t, h) ==
  /\ pc[t] = "idle"
  /\ h \in Live
  /\ handles' = handles (-) SetToBag({h})
  /\ pc' = [pc EXCEPT ![t] = "drop_lock"]
  /\ local' = [local EXCEPT ![t] = [IdleLocal EXCEPT !.h = <<h>>,
                                                     !.size = h.len]]
  /\ UNCHANGED <<total, chunks, poisoned, last, repaired, lifevars, lock>>

\* release: self.0.lock().expect("poisoned chain"); a panic unwinds through
\* the box and drops its fields.
DropLock(t) ==
  /\ pc[t] = "drop_lock"
  /\ LockFree(lock)
  /\ IF LockPanics(poisoned)
       THEN /\ pc' = [pc EXCEPT ![t] = "panicked"]
            /\ local' = [local EXCEPT ![t] = IdleLocal]
            /\ sliceRefs' = ArcDrop(sliceRefs)
            /\ chainRefs' = ArcDrop(chainRefs)
            /\ UNCHANGED lock
       ELSE /\ pc' = [pc EXCEPT ![t] = "drop_find"]
            /\ lock' = t
            /\ local' = [local EXCEPT ![t].snap = chunks]
            /\ UNCHANGED <<sliceRefs, chainRefs>>
  /\ UNCHANGED <<total, chunks, handles, poisoned, last, repaired, poolAlive>>

\* release: the binary search; .expect("releasing chunk") panics with the
\* guard held, which poisons the mutex and frees it.
DropFind(t) ==
  /\ pc[t] = "drop_find"
  /\ IF BinarySearchByOffset(chunks, BoxOffset(local[t].h[1])) = {}
       THEN /\ poisoned' = TRUE
            /\ lock' = Unlock(t)
            /\ pc' = [pc EXCEPT ![t] = "panicked"]
            /\ local' = [local EXCEPT ![t] = IdleLocal]
            /\ sliceRefs' = ArcDrop(sliceRefs)
            /\ chainRefs' = ArcDrop(chainRefs)
       ELSE /\ \E index \in BinarySearchByOffset(chunks,
                                                 BoxOffset(local[t].h[1])) :
                 local' = [local EXCEPT ![t].index = index]
            /\ pc' = [pc EXCEPT ![t] = "drop_merge"]
            /\ UNCHANGED <<poisoned, lock, sliceRefs, chainRefs>>
  /\ UNCHANGED <<total, chunks, handles, last, repaired, poolAlive>>

\* release: the merge into a free neighbour, or free = true.
DropMerge(t) ==
  /\ pc[t] = "drop_merge"
  /\ chunks' = ReleaseAt(chunks, local[t].index)
  /\ pc' = [pc EXCEPT ![t] = "drop_unlock"]
  /\ UNCHANGED <<total, handles, poisoned, last, repaired, lifevars, lock,
                 local>>

\* release returns: the guard is dropped.
DropUnlock(t) ==
  /\ pc[t] = "drop_unlock"
  /\ lock' = Unlock(t)
  /\ local' = [local EXCEPT ![t].snap = <<>>, ![t].index = 0]
  /\ pc' = [pc EXCEPT ![t] = "drop_fields"]
  /\ UNCHANGED <<total, chunks, handles, poisoned, last, repaired, lifevars>>

\* After SliceBox::drop the fields of the box are dropped: both Arcs.
DropFields(t) ==
  /\ pc[t] = "drop_fields"
  /\ sliceRefs' = ArcDrop(sliceRefs)
  /\ chainRefs' = ArcDrop(chainRefs)
  /\ pc' = [pc EXCEPT ![t] = "idle"]
  /\ local' = [local EXCEPT ![t] = IdleLocal]
  /\ UNCHANGED <<total, chunks, handles, poisoned, last, repaired, poolAlive,
                 lock>>

\* The steps of a thread that waits for the mutex.
Acquire(t) == AllocLock(t) \/ DropLock(t)

\* The steps of a running call, other than lock().
Proceed(t) ==
  \/ AllocFind(t)
  \/ AllocSplit(t)
  \/ AllocUnlock(t)
  \/ AllocRet(t)
  \/ DropFind(t)
  \/ DropMerge(t)
  \/ DropUnlock(t)
  \/ DropFields(t)

NextMT ==
  \/ \E t \in Threads : \E size \in 1..(total + 1) : StartAlloc(t, size)
  \/ \E t \in Threads : \E h \in Live : StartDrop(t, h)
  \/ \E t \in Threads : Acquire(t)
  \/ \E t \in Threads : Proceed(t)

\* The pool of pool_owned_thread, before any thread has called it.
InitMT == Init /\ total = PoolThreadLen

\* Threads calling alloc and dropping boxes in any interleaving.
SpecMT == InitMT /\ [][NextMT]_vars

\* A pool of at most MaxTotalFair elements, before any thread has called it.
InitFair == Init /\ total <= MaxTotalFair

\* The scheduler lets a running call take its next step, and the mutex is
\* handed to a thread that keeps asking for it.
FairSpecMT ==
  /\ InitFair
  /\ [][NextMT]_vars
  /\ \A t \in Threads : WF_vars(Proceed(t))
  /\ \A t \in Threads : SF_vars(Acquire(t))

----------------------------------------------------------------------------
(* The first-fit pools: SlicePool / ChunkRef of src/lib.rs, and the same    *)
(* ChunkableInner in src/refd.rs and src/owned.rs                           *)

\* self.values.iter().position(|chunk| chunk.free && chunk.size >= size):
\* the first chunk that fits; 0 when there is none.
PositionFit(chs, size) ==
  LET fits == {i \in 1..Len(chs) : chs[i].free /\ chs[i].size >= size}
  IN IF fits = {} THEN 0 ELSE CHOOSE i \in fits : \A j \in fits : i <= j

\* The position in release: the first chunk whose address
\* memory.as_ptr().offset(chunk.offset) is slice.as_ptr(); 0 when none is.
PositionPtr(chs, h) ==
  LET at == {i \in 1..Len(chs) : chs[i].offset * ElemSize = h.ptr}
  IN IF at = {} THEN 0 ELSE CHOOSE i \in at : \A j \in at : i <= j

\* defragment that merges the chunk after only.
DefragmentFollowingOnly(chs, index) ==
  IF index + 1 <= Len(chs) /\ chs[index + 1].free
    THEN VecRemove([chs EXCEPT ![index].size = @ + chs[index + 1].size],
                   index + 1)
    ELSE chs

\* defragment that merges the chunk before only.
DefragmentPrecedingOnly(chs, index) ==
  IF index > 1 /\ chs[index - 1].free
    THEN VecRemove([chs EXCEPT ![index - 1].size = @ + chs[index].size], index)
    ELSE chs

\* ChunkableInner::defragment(index): merge the chunk after into this one
\* when it is free, then this one into the chunk before when that is free.
Defragment(chs, index) ==
  LET after == IF index + 1 <= Len(chs) /\ chs[index + 1].free
                 THEN VecRemove([chs EXCEPT ![index].size =
                                               @ + chs[index + 1].size],
                                index + 1)
                 ELSE chs
  IN IF index > 1 /\ after[index - 1].free
       THEN VecRemove([after EXCEPT ![index - 1].size = @ + after[index].size],
                      index)
       ELSE after

\* ChunkableInner::allocate(size): [chunks: the table after, ret: the chunk
\* whose range the returned slice covers, as an Option].
InnerAllocate(chs, size) ==
  LET index == PositionFit(chs, size)
  IN IF index = 0
       THEN [chunks |-> chs, ret |-> None]
       ELSE LET delta == chs[index].size - size
                taken == [chs EXCEPT ![index].size = @ - delta,
                                     ![index].free = FALSE]
            IN [chunks |->
                  IF delta > 0
                    THEN Defragment(
                           VecInsert(taken, index + 1,
                                     [offset |-> chs[index].offset + size,
                                      size |-> delta, free |-> TRUE]),
                           index + 1)
                    ELSE taken,
                ret |-> Some([offset |-> chs[index].offset, size |-> size,
                              free |-> FALSE])]

\* ChunkableInner::release past the search: values[index].free = true, then
\* defragment(index).
InnerRelease(chs, index) ==
  Defragment([chs EXCEPT ![index].free = TRUE], index)

\* SlicePool::len() of src/lib.rs: the number of chunks.
RefLen == Len(chunks)

\* SlicePool::allocate(size) of src/lib.rs
AllocateRef(size) ==
  /\ UNCHANGED mtvars
  /\ BagCardinality(handles) < MaxHandles
  /\ LET r == InnerAllocate(chunks, size)
     IN /\ chunks' = r.chunks
        /\ handles' = IF r.ret = None THEN handles
                      ELSE handles (+) SetToBag({MakeBox(r.ret[1], size)})
        /\ last' = Call("alloc", size, 0, PositionFit(chunks, size), r.ret,
                         chunks, FALSE, FALSE, <<>>, FALSE)
  /\ UNCHANGED <<total, poisoned, repaired, poolAlive, sliceRefs, chainRefs>>

\* ChunkRef::drop of the live reference h
DropRef(h) ==
  /\ UNCHANGED mtvars
  /\ h \in Live
  /\ handles' = handles (-) SetToBag({h})
  /\ IF PositionPtr(chunks, h) = 0
       THEN \* .unwrap() panics
            /\ last' = Call("drop", h.len, BoxOffset(h), 0, None, chunks, TRUE,
                             FALSE, <<>>, FALSE)
            /\ UNCHANGED chunks
       ELSE /\ chunks' = InnerRelease(chunks, PositionPtr(chunks, h))
            /\ last' = Call("drop", h.len, BoxOffset(h), PositionPtr(chunks, h),
                             None, chunks, FALSE, FALSE, <<>>, FALSE)
  /\ UNCHANGED <<total, poisoned, repaired, poolAlive, sliceRefs, chainRefs>>

NextRef ==
  \/ \E size \in 1..(total + 1) : AllocateRef(size)
  \/ \E h \in Live : DropRef(h)

\* The first-fit pool of src/lib.rs.
SpecRef == Init /\ [][NextRef]_vars

----------------------------------------------------------------------------
(* What the properties speak of *)

\* The number of free chunks next to chunk i.
FreeNeighbours(chs, i) ==
  (IF HasFreePreceding(chs, i) THEN 1 ELSE 0)
  + (IF HasFreeFollowing(chs, i) THEN 1 ELSE 0)

\* The index range [offset, offset + len) a live box covers.
BoxRange(h) == BoxOffset(h)..(BoxOffset(h) + h.len - 1)

\* The index range of a chunk.
ChunkRange(c) == c.offset..(c.offset + c.size - 1)

\* The indices of the slice that lie in a free chunk of the table.
FreeIndices(chs) ==
  UNION {ChunkRange(chs[i]) : i \in {j \in 1..Len(chs) : chs[j].free}}

\* The table has a run of `size` consecutive indices that are all free.
HasFreeRun(chs, size) ==
  \E start \in 0..(total - size) :
    \A k \in start..(start + size - 1) : k \in FreeIndices(chs)

\* The offsets of the table increase strictly from chunk to chunk.
StrictlySorted(chs) ==
  \A i \in 1..(Len(chs) - 1) : chs[i].offset < chs[i + 1].offset

\* The last call was an allocate that returned Some(chunk).
Allocated == last.op = "alloc" /\ last.ret # None

\* The last call was a release that found its chunk.
Released == last.op = "drop" /\ ~last.panicked

\* chunk[i].offset + chunk[i].size == chunk[i+1].offset for all i.
Contiguous(chs) ==
  \A i \in 1..(Len(chs) - 1) : chs[i].offset + chs[i].size = chs[i + 1].offset

\* The first offset is 0 and the last chunk ends at the length n.
Covers(chs, n) ==
  /\ Len(chs) >= 1
  /\ chs[1].offset = 0
  /\ chs[Len(chs)].offset + chs[Len(chs)].size = n

\* No two adjacent chunks are both free.
NoAdjacentFree(chs) ==
  \A i \in 1..(Len(chs) - 1) : ~(chs[i].free /\ chs[i + 1].free)

\* i is a best fit for size in chs: free, large enough, of the least size
\* among such chunks, and the first of those of that size.
IsBestFit(chs, i, size) ==
  /\ chs[i].free
  /\ chs[i].size >= size
  /\ \A j \in 1..Len(chs) :
       (chs[j].free /\ chs[j].size >= size) =>
         /\ chs[i].size <= chs[j].size
         /\ (chs[i].size = chs[j].size => i <= j)

----------------------------------------------------------------------------
(* Properties *)

\* C1: any two live boxes cover disjoint index ranges (two boxes with the
\* same pointer and length are two boxes).
C1_Exclusivity ==
  \A h1, h2 \in Live :
    (h1 # h2 \/ CopiesIn(h1, handles) > 1) => BoxRange(h1) \cap BoxRange(h2) = {}

\* C2: on a slice of length >= 1 the table is contiguous and covers
\* [0, total) exactly, after every sequence of allocs and drops.
C2_Partition ==
  total >= 1 => Contiguous(chunks) /\ Covers(chunks, total)

\* C2 witness: a release has just merged a chunk into its following
\* neighbour in a table that allocations had split into three or more.
C2_Witness ==
  /\ Released
  /\ total >= 1
  /\ Len(last.pre) >= 3
  /\ ~HasFreePreceding(last.pre, last.index)
  /\ HasFreeFollowing(last.pre, last.index)

\* C3: no two adjacent chunks of the table are both free, and a release
\* between two free chunks leaves one free chunk spanning all three.
C3_NoAdjacentFree ==
  /\ NoAdjacentFree(chunks)
  /\ (/\ Released
      /\ HasFreePreceding(last.pre, last.index)
      /\ HasFreeFollowing(last.pre, last.index))
     => /\ Len(chunks) = Len(last.pre) - 2
        /\ chunks[last.index - 1].free
        /\ chunks[last.index - 1].offset = last.pre[last.index - 1].offset
        /\ chunks[last.index - 1].size =
             last.pre[last.index - 1].size + last.pre[last.index].size
             + last.pre[last.index + 1].size

\* C4: the live boxes and the occupied chunks are in one-to-one
\* correspondence, each box with a chunk of its offset and its size.
C4_OneHandlePerChunk ==
  /\ \A h \in Live :
       /\ CopiesIn(h, handles) = 1
       /\ \E i \in 1..Len(chunks) :
            /\ ~chunks[i].free
            /\ chunks[i].offset = BoxOffset(h)
            /\ chunks[i].size = h.len
  /\ \A i \in 1..Len(chunks) :
       ~chunks[i].free =>
         \E h \in Live : BoxOffset(h) = chunks[i].offset /\ h.len = chunks[i].size
  /\ \A h1, h2 \in Live : BoxOffset(h1) = BoxOffset(h2) => h1 = h2

\* C5: a successful allocate returns a chunk of the requested size that is
\* occupied, in the record returned and in the table at the returned offset.
C5_ReturnsOccupied ==
  Allocated =>
    /\ last.ret[1].size = last.size
    /\ ~last.ret[1].free
    /\ \E i \in 1..Len(chunks) :
         chunks[i].offset = last.ret[1].offset /\ ~chunks[i].free

\* C6: every live box has a chunk at its offset in the table, and no drop
\* of a box hits the 'releasing chunk' failure.
C6_DropNeverFails ==
  /\ \A h \in Live : BinarySearchByOffset(chunks, BoxOffset(h)) # {}
  /\ ~(last.op = "drop" /\ last.panicked)

\* C7: a successful allocate takes its range from a free chunk that is large
\* enough, of the least size among such chunks and, among those of that
\* size, the one with the lowest offset.
C7_BestFit ==
  Allocated =>
    \E i \in 1..Len(last.pre) :
      /\ IsBestFit(last.pre, i, last.size)
      /\ BoxRange(MakeBox(last.ret[1], last.size)) \subseteq ChunkRange(last.pre[i])
      /\ ChunkRange(last.ret[1]) \subseteq ChunkRange(last.pre[i])

\* C7 witness: the allocate passed over a larger free chunk at a lower
\* offset and took a smaller one further on.
C7_Witness ==
  /\ Allocated
  /\ \E j \in 1..(last.index - 1) :
       last.pre[j].free /\ last.pre[j].size > last.pre[last.index].size
  /\ last.ret[1].offset = last.pre[last.index].offset

\* C8: an allocate followed at once by the drop of the box it returned
\* leaves the table as it was before the allocate.
C8_RoundTrip ==
  (Released /\ last.undoes) => chunks = last.pre2

\* C9: an allocate of more than the length of the slice returns no chunk
\* and leaves the table alone, in this call and for every larger size.
C9_Oversized ==
  /\ (last.op = "alloc" /\ last.size > total) =>
       last.ret = None /\ chunks = last.pre
  /\ \A size \in (total + 1)..(total + MaxTotal) :
       Allocate(chunks, size) = [chunks |-> chunks, ret |-> None]

\* C9 witness: an oversized allocate has returned None on a slice of
\* length >= 1 that had a free chunk.
C9_Witness ==
  /\ last.op = "alloc"
  /\ ~last.panicked
  /\ last.size > total
  /\ total >= 1
  /\ \E i \in 1..Len(last.pre) : last.pre[i].free

\* C10: a release of an occupied chunk whose neighbours (where they exist)
\* are occupied keeps the number of chunks, every offset and every size,
\* frees that chunk alone; and an allocate of exactly the size of that
\* chunk, when it is the chunk selected, returns its offset.
C10_ReleaseInPlace ==
  /\ (/\ Released
      /\ ~last.pre[last.index].free
      /\ InPlace(last.pre, last.index))
     => /\ Len(chunks) = Len(last.pre)
        /\ \A j \in 1..Len(chunks) :
             /\ chunks[j].offset = last.pre[j].offset
             /\ chunks[j].size = last.pre[j].size
             /\ chunks[j].free = (IF j = last.index THEN TRUE ELSE last.pre[j].free)
        /\ repaired = Some(chunks[last.index])
  /\ (/\ Allocated
      /\ last.took
      /\ last.size = last.pre[last.index].size)
     => /\ last.ret[1].offset = last.pre[last.index].offset
        /\ last.ret[1].size = last.pre[last.index].size
        /\ Len(chunks) = Len(last.pre)
        /\ ~chunks[last.index].free

\* C10 witness: a chunk between two occupied chunks was freed in place and
\* an allocate of its size has now returned its offset.
C10_Witness ==
  /\ Allocated
  /\ last.took
  /\ last.size = last.pre[last.index].size
  /\ last.index > 1
  /\ last.index < Len(last.pre)
  /\ ~last.pre[last.index - 1].free
  /\ ~last.pre[last.index + 1].free

\* C11: while a box is live the slice and the chain are alive, also after
\* the pool was dropped; dropping the pool leaves the boxes and the table as
\* they were; a drop of a box after the pool's still frees its range in the
\* table; the slice and the chain die only when the pool and all boxes are
\* gone.
C11_OutlivesPool ==
  /\ Live # {} => ArcAlive(sliceRefs) /\ ArcAlive(chainRefs)
  /\ poolAlive => ArcAlive(sliceRefs) /\ ArcAlive(chainRefs)
  /\ (~ArcAlive(sliceRefs) \/ ~ArcAlive(chainRefs)) => ~poolAlive /\ Live = {}
  /\ last.op = "droppool" => handles = last.boxes /\ chunks = last.pre
  /\ (/\ last.op = "drop"
      /\ ~poolAlive
      /\ ~last.panicked
      /\ ~last.pre[last.index].free)
     => /\ chunks # last.pre
        /\ \E i \in 1..Len(chunks) :
             /\ chunks[i].free
             /\ ChunkRange(last.pre[last.index]) \subseteq ChunkRange(chunks[i])

\* C11 witness: the pool is gone, a box allocated from it has just been
\* dropped and released its chunk, and another box is still live.
C11_Witness ==
  /\ ~poolAlive
  /\ last.op = "drop"
  /\ ~last.panicked
  /\ ~last.pre[last.index].free
  /\ Live # {}
  /\ ArcAlive(sliceRefs)

\* C13: a release that fails fatally poisons the chain; from then on the
\* chain stays poisoned and every allocate and every release panics,
\* returns nothing and leaves the table as it is.
C13_PoisonPropagates ==
  /\ []((last.op = "drop" /\ last.panicked) => poisoned)
  /\ [][poisoned => /\ poisoned'
                    /\ chunks' = chunks
                    /\ last'.op \in {"alloc", "drop"}
                    /\ last'.panicked
                    /\ last'.ret = None]_vars

\* C13 witness: on the poisoned chain an allocate has panicked while a box
\* is still live.
C13_Witness ==
  /\ poisoned
  /\ last.op = "alloc"
  /\ last.panicked
  /\ Live # {}

\* C14: len() is the length of the slice, and no call changes it.
C14_LenConstant ==
  /\ [](PoolLen = total)
  /\ [][PoolLen' = PoolLen]_vars

\* C14 witness: allocs and a drop have left a table whose number of chunks
\* differs from the length of the slice, which len() still returns.
C14_Witness ==
  /\ Released
  /\ Live # {}
  /\ Len(chunks) >= 2
  /\ Len(chunks) # total
  /\ PoolLen = total

\* C18: when the selected chunk is larger than the request and has no free
\* neighbour, the returned range starts at the chunk's old offset, the
\* surplus is one new free chunk right after it, and every other chunk is
\* as before.
C18_SplitPlacement ==
  (/\ Allocated
   /\ last.pre[last.index].size > last.size
   /\ InPlace(last.pre, last.index))
  => /\ last.ret[1].offset = last.pre[last.index].offset
     /\ last.ret[1].size = last.size
     /\ Len(chunks) = Len(last.pre) + 1
     /\ chunks[last.index].offset = last.pre[last.index].offset
     /\ chunks[last.index].size = last.size
     /\ chunks[last.index + 1] =
          [offset |-> last.pre[last.index].offset + last.size,
           size |-> last.pre[last.index].size - last.size,
           free |-> TRUE]
     /\ \A j \in 1..(last.index - 1) : chunks[j] = last.pre[j]
     /\ \A j \in (last.index + 1)..Len(last.pre) : chunks[j + 1] = last.pre[j]

\* C18 witness: an allocate has split a free chunk that lay between two
\* occupied chunks.
C18_Witness ==
  /\ Allocated
  /\ last.pre[last.index].size > last.size
  /\ last.index > 1
  /\ last.index < Len(last.pre)
  /\ ~last.pre[last.index - 1].free
  /\ ~last.pre[last.index + 1].free

\* C19: an allocate that returns None leaves the table and the live boxes
\* exactly as they were.
C19_FailedAllocNoChange ==
  (last.op = "alloc" /\ ~last.panicked /\ last.ret = None)
  => /\ chunks = last.pre
     /\ handles = last.boxes

\* C19 witness: an allocate of no more than the length of the slice has
\* failed although some chunk was free, with a box live.
C19_Witness ==
  /\ last.op = "alloc"
  /\ ~last.panicked
  /\ last.ret = None
  /\ last.size <= total
  /\ Live # {}
  /\ \E i \in 1..Len(chunks) : chunks[i].free

\* C15: in the pool of lib.rs len() is the number of chunks; an allocate
\* that takes part of a free chunk raises it by 1, an exact fit and a failed
\* allocate leave it, and a drop lowers it by the number of free neighbours
\* of the released chunk.
C15_RefLenSteps ==
  /\ RefLen = Len(chunks)
  /\ (Allocated /\ last.pre[last.index].size > last.size)
       => RefLen = Len(last.pre) + 1
  /\ (Allocated /\ last.pre[last.index].size = last.size)
       => RefLen = Len(last.pre)
  /\ (last.op = "alloc" /\ last.ret = None) => RefLen = Len(last.pre)
  /\ last.op = "drop"
       => /\ ~last.panicked
          /\ RefLen = Len(last.pre) - FreeNeighbours(last.pre, last.index)

\* C15 witness: a drop between two free chunks has lowered len() by 2.
C15_Witness ==
  /\ last.op = "drop"
  /\ ~last.panicked
  /\ FreeNeighbours(last.pre, last.index) = 2
  /\ RefLen = Len(last.pre) - 2

\* C16: in the first-fit pools the table is contiguous, covers [0, len)
\* exactly and has no two adjacent free chunks, and a release between two
\* free chunks leaves one free chunk over all three.
C16_RefInvariants ==
  /\ Contiguous(chunks)
  /\ Covers(chunks, total)
  /\ NoAdjacentFree(chunks)
  /\ (last.op = "drop" /\ ~last.panicked
      /\ FreeNeighbours(last.pre, last.index) = 2)
     => /\ chunks[last.index - 1].free
        /\ chunks[last.index - 1].offset = last.pre[last.index - 1].offset
        /\ chunks[last.index - 1].size =
             last.pre[last.index - 1].size + last.pre[last.index].size
             + last.pre[last.index + 1].size

\* C16 witness: a release between two free chunks has left the whole slice
\* as one free chunk.
C16_Witness ==
  /\ last.op = "drop"
  /\ FreeNeighbours(last.pre, last.index) = 2
  /\ Len(chunks) = 1
  /\ chunks[1].free
  /\ total >= 3

\* C17: the allocate of the first-fit pools takes its range from a free
\* chunk of the least size among those that fit.
C17_RefBestFit ==
  Allocated =>
    \E i \in 1..Len(last.pre) :
      /\ IsBestFit(last.pre, i, last.size)
      /\ ChunkRange(last.ret[1]) \subseteq ChunkRange(last.pre[i])

\* C12: with threads interleaving, a thread is between lock() and the drop
\* of its guard exactly when it holds the mutex, at most one thread is; until
\* a call writes, the table is as it was when the call took the lock, and
\* once it has written, table and return value are those of the whole
\* operation run alone on that table: every interleaving has the effect of
\* the operations run one at a time in the order they took the lock.
C12_Atomic ==
  /\ \A t \in Threads : InCritical(t) <=> lock = t
  /\ \A t, u \in Threads : (InCritical(t) /\ InCritical(u)) => t = u
  /\ \A t \in Threads :
       /\ pc[t] \in {"alloc_find", "alloc_split", "drop_find", "drop_merge"}
            => chunks = local[t].snap
       /\ pc[t] = "alloc_unlock"
            => [chunks |-> chunks, ret |-> local[t].ret]
                 = Allocate(local[t].snap, local[t].size)
       /\ pc[t] = "drop_unlock"
            => \E i \in BinarySearchByOffset(local[t].snap,
                                             BoxOffset(local[t].h[1])) :
                 chunks = ReleaseAt(local[t].snap, i)

\* C12 witness: one thread has written the table under the lock while the
\* other thread, in the middle of a drop, waits for the mutex.
C12_Witness ==
  \E t, u \in Threads :
    /\ pc[t] = "alloc_unlock"
    /\ chunks # local[t].snap
    /\ lock = t
    /\ pc[u] = "drop_lock"

\* C20: an allocate that finds no fitting chunk hands back None and frees
\* the mutex at once, and under fair scheduling every alloc and every drop a
\* thread has started returns, unless the mutex has been poisoned by a panic.
C20_NoBlocking ==
  /\ [][\A t \in Threads :
          (pc[t] = "alloc_find" /\ FindChunk(chunks, local[t].size) = 0
           /\ pc'[t] # pc[t])
            => (pc'[t] = "alloc_ret" /\ local'[t].ret = None /\ lock' # t)]_vars
  /\ \A t \in Threads : InProgress(t) ~> (pc[t] = "idle" \/ poisoned)

\* C20 witness: an alloc has come back with None, with the table full,
\* while the other thread is still in the middle of dropping a box.
C20_Witness ==
  \E t, u \in Threads :
    /\ pc[t] = "alloc_ret"
    /\ local[t].ret = None
    /\ lock = u
    /\ pc[u] = "drop_merge"

\* C21: whenever no box is live the table is one free chunk with offset 0
\* and the size of the slice, so an allocate of the whole slice succeeds.
C21_FullRecovery ==
  handles = EmptyBag =>
    /\ chunks = ChainNew(total)
    /\ total >= 1 => Allocate(chunks, total).ret # None

\* C22: allocate(size >= 1) returns None only when the table has no run of
\* `size` consecutive free indices.
C22_Complete ==
  (last.op = "alloc" /\ ~last.panicked /\ last.size >= 1 /\ last.ret = None)
    => ~HasFreeRun(last.pre, last.size)

\* C23: with requests of any size, 0 included, the offsets of the table
\* increase strictly, the search of a release has exactly one chunk to find,
\* and an allocate of size 0 followed by the drop of its box leaves the
\* table as it was.
C23_UniqueOffsets ==
  /\ StrictlySorted(chunks)
  /\ last.op = "drop" =>
       Cardinality(BinarySearchByOffset(last.pre, last.offset)) = 1
  /\ (Released /\ last.undoes /\ last.size = 0) => chunks = last.pre2

====
